---- MODULE Spec2Model ----
(***************************************************************************)
(* State-machine model of priv/python/dspy_bridge.py: the length-prefixed  *)
(* request/response loop (ProtocolHandler), the command dispatcher         *)
(* (DSPyBridge.process_command and its handlers) and the in-memory program *)
(* registry (DSPyProgramManager).                                          *)
(*                                                                         *)
(* Abstractions: wall-clock values (created_at, uptime, timestamps) are a  *)
(* single token; the free-text instructions of a program and the stderr    *)
(* diagnostics are left out (they are never read back by any decision);    *)
(* an error string is the sequence of its message parts, outermost wrapper *)
(* first, so "Execute program failed: Failed to recreate program: No LM is *)
(* loaded." is a three-element sequence.  The external capability (dspy)   *)
(* is a nondeterministic choice among the outcomes a call can have.        *)
(***************************************************************************)
EXTENDS Integers, Sequences, FiniteSets, TLC

(***************************************************************************)
(* Bounds of the model.                                                    *)
(***************************************************************************)
\* Number of request frames the input stream delivers before it ends.
MaxRequests == 3

(***************************************************************************)
(* Values.                                                                 *)
(***************************************************************************)
\* Python None / JSON null / the value of dict.get on a missing key.
None == "<None>"
\* A command value that cannot be a dictionary key (a JSON list or object).
Unhashable == "<unhashable>"
\* The one token standing for every time.time() value.
Now == "<time>"

\* Correlation ids a caller may put in a request (None: the key is absent).
CorrelationIds == {"r1", None}

\* Identifiers a caller may pass as program id ("" is the empty string; a
\* missing key reads as None, which is falsy and absent from the registry
\* exactly as "" is).
ProgramIds == {"p1", "p2"}
ProgramIdArgs == ProgramIds \cup {""}

\* A deliberately wrong variant: an entry is missing from the table.
SupportedCommandsShort ==
    << "ping", "configure_lm", "create_program", "execute_program",
       "get_program", "list_programs", "delete_program" >>

\* The eight keys of the handlers table, in insertion order.
SupportedCommands ==
    << "ping", "configure_lm", "create_program", "execute_program",
       "get_program", "list_programs", "delete_program", "clear_session" >>

\* Command values a request may carry: the supported names, a name outside
\* the table, no command key at all, and an unhashable JSON value.
CommandValues ==
    {SupportedCommands[i] : i \in DOMAIN SupportedCommands}
        \cup {"bogus", None, Unhashable}

\* The empty mapping {} (falsy).
EmptyDict == << >>

\* A mapping that carries none of the keys a handler reads.
OtherArgs == [unused |-> "x"]

\* args that is not a mapping (a JSON string, number or list): every
\* args.get raises AttributeError.
BadArgs == [not_a_mapping |-> TRUE]

IsMapping(args) == "not_a_mapping" \notin DOMAIN args

\* dict.get(key, default)
Get(args, key, default) == IF key \in DOMAIN args THEN args[key] ELSE default

\* None in a position that otherwise holds a mapping.
NoneObj == [is_none |-> TRUE]

\* Python truthiness ("not x") of a string-or-None and of a mapping-or-None.
FalsyStr(x) == x = None \/ x = ""
FalsyObj(x) == x = NoneObj \/ x = EmptyDict

(***************************************************************************)
(* Field specifications.  A field is modelled by its name; NoName is a     *)
(* field entry without a 'name' key.                                       *)
(***************************************************************************)
NoName == "<no name>"

SigQA == [inputs |-> << "question" >>, outputs |-> << "answer" >>]
SigNoOut == [inputs |-> << "question" >>, outputs |-> << >>]
BadSig == [inputs |-> << "question" >>, outputs |-> << NoName >>]

\* Values of the create_program "signature" argument and of a snapshot's
\* "signature_def" key.
SignatureValues == {SigQA, SigNoOut, BadSig, EmptyDict}

SeqRange(s) == {s[i] : i \in DOMAIN s}

(***************************************************************************)
(* Error and result values.                                                *)
(***************************************************************************)
\* {"status": "error", "error": <message>}
ErrorResult(parts) == [status |-> "error", error |-> parts]

\* Outcome of a call that may raise.
Raised(text) == [raised |-> TRUE, exc |-> text]
Returned(value) == [raised |-> FALSE, value |-> value]

\* Exception texts (str(e)); a raised capability error is opaque.
AttributeErrorText == << "object has no attribute 'get'" >>
KeyErrorNameText == << "'name'" >>
CapabilityErrorText == << "<capability error>" >>

(***************************************************************************)
(* DSPySignatureBuilder.build_signature                                    *)
(***************************************************************************)
\* A deliberately wrong variant: the field mapping holds the input fields
\* only.
build_signatureInputsOnly(available, signature_def, ctor_raises) ==
    IF ~available THEN Raised(<< "DSPy is not available" >>)
    ELSE LET inputs == Get(signature_def, "inputs", << >>)
             outputs == Get(signature_def, "outputs", << >>)
             names == SeqRange(inputs) \cup SeqRange(outputs)
         IN IF NoName \in names THEN Raised(KeyErrorNameText)
            ELSE IF ctor_raises THEN Raised(CapabilityErrorText)
            ELSE Returned([signature_string |-> << inputs, "->", outputs >>,
                           field_mapping |-> SeqRange(inputs)])

\* ctor_raises: whether dspy.Signature(signature_string) raises.
build_signature(available, signature_def, ctor_raises) ==
    IF ~available THEN Raised(<< "DSPy is not available" >>)
    ELSE LET inputs == Get(signature_def, "inputs", << >>)
             outputs == Get(signature_def, "outputs", << >>)
             names == SeqRange(inputs) \cup SeqRange(outputs)
         IN IF NoName \in names THEN Raised(KeyErrorNameText)
            ELSE IF ctor_raises THEN Raised(CapabilityErrorText)
            ELSE Returned([signature_string |-> << inputs, "->", outputs >>,
                           field_mapping |-> names])

(***************************************************************************)
(* The registry: DSPyProgramManager.programs is a dict, which Python keeps *)
(* in insertion order; it is modelled as the sequence of its items.        *)
(***************************************************************************)
Keys(progs) == {progs[i].program_id : i \in DOMAIN progs}

\* program_id in self.programs
Contains(progs, program_id) == program_id \in Keys(progs)

IndexOf(progs, program_id) ==
    CHOOSE i \in DOMAIN progs : progs[i].program_id = program_id

\* self.programs[program_id]
Lookup(progs, program_id) == progs[IndexOf(progs, program_id)]

\* A deliberately wrong variant: a second record for a registered id.
DictSetAppend(progs, program_id, record) == Append(progs, record)

\* self.programs[program_id] = record: replaces the value of an existing
\* key in place, appends a new key.
DictSet(progs, program_id, record) ==
    IF Contains(progs, program_id)
    THEN [progs EXCEPT ![IndexOf(progs, program_id)] = record]
    ELSE Append(progs, record)

\* A deliberately wrong variant: the oldest record is removed, whatever
\* the key.
DictDelFirst(progs, program_id) == Tail(progs)

\* del self.programs[program_id]
DictDel(progs, program_id) ==
    LET i == IndexOf(progs, program_id)
    IN SubSeq(progs, 1, i - 1) \o SubSeq(progs, i + 1, Len(progs))

(***************************************************************************)
(* Values a capability result carries, and str() of them.  A text is the   *)
(* sequence of its pieces, "[" and "]" being pieces of their own.          *)
(***************************************************************************)
StrValue(pieces) == [type |-> "str", text |-> pieces]
ListValue(pieces) == [type |-> "list", text |-> pieces]
ObjectValue == [type |-> "object", text |-> << "obj" >>]

\* str(v)
Str(v) ==
    CASE v.type = "str" -> v.text
      [] v.type = "list" -> << "[" >> \o v.text \o << "]" >>
      [] OTHER -> << "<" >> \o v.text \o << ">" >>

\* json.dumps accepts v (default encoder).
JsonValue(v) == v.type \in {"str", "list"}

PlainValue == StrValue(<< "4" >>)
BracketValue == StrValue(<< "[", "4", "]" >>)
RawValues == {PlainValue, BracketValue, ListValue(<< "4" >>), ObjectValue}

\* The attributes of a result object: a mapping from name to value.
AttrOf(name, v) == [n \in {name} |-> v]
NoAttrs == << >>

\* hasattr(result, name) / getattr(result, name)
HasAttr(result, name) == name \in DOMAIN result.attrs
GetAttr(result, name) == result.attrs[name]

(***************************************************************************)
(* DSPyProgramManager                                                      *)
(***************************************************************************)
NewRecord(program_id, signature_def, field_mapping, program_type) ==
    [program_id |-> program_id, signature_def |-> signature_def,
     field_mapping |-> field_mapping, program_type |-> program_type,
     created_at |-> Now, execution_count |-> 0]

\* A handler's outcome: the result it returns and the registry it leaves.
Outcome(result, progs) == [result |-> result, programs |-> progs]

\* A deliberately wrong variant: the record is stored before the program
\* type is looked at.
create_programStoresFirst(progs, available, program_id, signature_def, program_type, sig_raises, predict_raises) ==
    IF ~available
    THEN Outcome(ErrorResult(<< "DSPy is not available" >>), progs)
    ELSE LET built == build_signature(available, signature_def, sig_raises)
         IN IF built.raised
            THEN Outcome(ErrorResult(<< "Failed to create program" >>
                                     \o built.exc), progs)
            ELSE IF program_type # "predict"
            THEN Outcome(ErrorResult(<< "Unsupported program type",
                                        program_type >>),
                         DictSet(progs, program_id,
                                 NewRecord(program_id, signature_def,
                                           built.value.field_mapping,
                                           program_type)))
            ELSE IF predict_raises
            THEN Outcome(ErrorResult(<< "Failed to create program" >>
                                     \o CapabilityErrorText), progs)
            ELSE Outcome(
                   [status |-> "ok", program_id |-> program_id,
                    signature_def |-> signature_def,
                    program_type |-> program_type],
                   DictSet(progs, program_id,
                           NewRecord(program_id, signature_def,
                                     built.value.field_mapping,
                                     program_type)))

\* sig_raises, predict_raises: whether dspy.Signature, dspy.Predict raise
\* during this call.
create_program(progs, available, program_id, signature_def, program_type, sig_raises, predict_raises) ==
    IF ~available
    THEN Outcome(ErrorResult(<< "DSPy is not available" >>), progs)
    ELSE LET built == build_signature(available, signature_def, sig_raises)
         IN IF built.raised
            THEN Outcome(ErrorResult(<< "Failed to create program" >>
                                     \o built.exc), progs)
            ELSE IF program_type # "predict"
            THEN Outcome(ErrorResult(<< "Unsupported program type",
                                        program_type >>), progs)
            ELSE IF predict_raises
            THEN Outcome(ErrorResult(<< "Failed to create program" >>
                                     \o CapabilityErrorText), progs)
            ELSE Outcome(
                   [status |-> "ok", program_id |-> program_id,
                    signature_def |-> signature_def,
                    program_type |-> program_type],
                   DictSet(progs, program_id,
                           NewRecord(program_id, signature_def,
                                     built.value.field_mapping,
                                     program_type)))

\* Outputs of the registry path: the declared output fields the result
\* object has, with their raw values.
RegistryOutputs(signature_def, result) ==
    LET declared == SeqRange(Get(signature_def, "outputs", << >>))
        found == {n \in declared : HasAttr(result, n)}
    IN [n \in found |-> GetAttr(result, n)]

\* A deliberately wrong variant: the counter is left alone.
BumpNone(record) == record

\* A deliberately wrong variant: -= 1 for += 1.
BumpDown(record) ==
    [record EXCEPT !.execution_count = record.execution_count - 1]

\* program_info["execution_count"] += 1
Bump(record) ==
    [record EXCEPT !.execution_count = record.execution_count + 1]

\* A deliberately wrong variant: the counter is incremented before the
\* program is invoked.
execute_programCountsFirst(progs, program_id, inputs, call) ==
    IF ~Contains(progs, program_id)
    THEN Outcome(ErrorResult(<< "Program not found", program_id >>), progs)
    ELSE IF ~IsMapping(inputs)
    THEN Outcome(ErrorResult(<< "Program execution failed",
                                "argument after ** must be a mapping" >>),
                 progs)
    ELSE LET i == IndexOf(progs, program_id)
             after == [progs EXCEPT ![i] = Bump(progs[i])]
         IN IF call.raised
            THEN Outcome(ErrorResult(<< "Program execution failed" >>
                                     \o call.exc),
                         after)
            ELSE Outcome(
                   [status |-> "ok", program_id |-> program_id,
                    inputs |-> inputs,
                    outputs |-> RegistryOutputs(progs[i].signature_def,
                                                call.value),
                    execution_count |-> after[i].execution_count],
                   after)

\* A deliberately wrong variant: no membership test, so an unregistered id
\* surfaces as the KeyError of self.programs[program_id].
execute_programUnchecked(progs, program_id, inputs, call) ==
    IF ~Contains(progs, program_id)
    THEN Outcome(ErrorResult(<< "Failed to execute program", program_id >>),
                 progs)
    ELSE IF ~IsMapping(inputs)
    THEN Outcome(ErrorResult(<< "Program execution failed",
                                "argument after ** must be a mapping" >>),
                 progs)
    ELSE IF call.raised
    THEN Outcome(ErrorResult(<< "Program execution failed" >> \o call.exc),
                 progs)
    ELSE LET i == IndexOf(progs, program_id)
             after == [progs EXCEPT ![i] = Bump(progs[i])]
         IN Outcome(
              [status |-> "ok", program_id |-> program_id,
               inputs |-> inputs,
               outputs |-> RegistryOutputs(progs[i].signature_def,
                                           call.value),
               execution_count |-> after[i].execution_count],
              after)

\* call: the outcome of program(**inputs), Raised(..) or Returned(result).
execute_program(progs, program_id, inputs, call) ==
    IF ~Contains(progs, program_id)
    THEN Outcome(ErrorResult(<< "Program not found", program_id >>), progs)
    ELSE IF ~IsMapping(inputs)
    THEN Outcome(ErrorResult(<< "Program execution failed",
                                "argument after ** must be a mapping" >>),
                 progs)
    ELSE IF call.raised
    THEN Outcome(ErrorResult(<< "Program execution failed" >> \o call.exc),
                 progs)
    ELSE LET i == IndexOf(progs, program_id)
             after == [progs EXCEPT ![i] = Bump(progs[i])]
         IN Outcome(
              [status |-> "ok", program_id |-> program_id,
               inputs |-> inputs,
               outputs |-> RegistryOutputs(progs[i].signature_def,
                                           call.value),
               execution_count |-> after[i].execution_count],
              after)

get_program(progs, program_id) ==
    IF ~Contains(progs, program_id)
    THEN ErrorResult(<< "Program not found", program_id >>)
    ELSE LET program_info == Lookup(progs, program_id)
         IN [status |-> "ok", program_id |-> program_id,
             signature_def |-> program_info.signature_def,
             program_type |-> program_info.program_type,
             created_at |-> program_info.created_at,
             execution_count |-> program_info.execution_count]

list_programs(progs) ==
    LET program_list ==
          [i \in DOMAIN progs |->
              [program_id |-> progs[i].program_id,
               program_type |-> progs[i].program_type,
               created_at |-> progs[i].created_at,
               execution_count |-> progs[i].execution_count]]
    IN [status |-> "ok", programs |-> program_list,
        count |-> Len(program_list)]

delete_program(progs, program_id) ==
    IF ~Contains(progs, program_id)
    THEN Outcome(ErrorResult(<< "Program not found", program_id >>), progs)
    ELSE Outcome([status |-> "ok", program_id |-> program_id,
                  message |-> << "Program deleted successfully" >>],
                 DictDel(progs, program_id))

\* A deliberately wrong variant: the count is reported, nothing is removed.
clear_sessionNoClear(progs) ==
    LET count == Len(progs)
    IN Outcome([status |-> "ok", message |-> << "Cleared programs", count >>,
                count |-> count],
               progs)

clear_session(progs) ==
    LET count == Len(progs)
    IN Outcome([status |-> "ok", message |-> << "Cleared programs", count >>,
                count |-> count],
               << >>)

(***************************************************************************)
(* Result objects of the capability.  attrs: what hasattr/getattr answer;  *)
(* store: result._store ({} when absent or empty); completions: the state  *)
(* of result._completions; dict: result.__dict__ ({} when absent).         *)
(***************************************************************************)
NoCompletions == [state |-> "falsy"]
BrokenCompletions == [state |-> "broken"]
FirstCompletion(v) == [state |-> "first", value |-> v]

ResultObject(attrs, store, completions, dict) ==
    [attrs |-> attrs, store |-> store, completions |-> completions,
     dict |-> dict]

ResultObjects ==
    { ResultObject(a, st, c, EmptyDict) :
        a \in {NoAttrs} \cup {AttrOf("answer", v) : v \in RawValues},
        st \in {EmptyDict, [answer |-> PlainValue]},
        c \in {NoCompletions, FirstCompletion(PlainValue)} }
      \cup { ResultObject(NoAttrs, EmptyDict, BrokenCompletions,
                          [extra |-> PlainValue, _store |-> PlainValue,
                           completions |-> PlainValue]) }

\* Outcomes of program(**inputs).
CallOutcomes == {Raised(CapabilityErrorText)}
                    \cup {Returned(r) : r \in ResultObjects}

\* What the capability does during one execute_program: dspy.Signature
\* raises, or dspy.Predict raises, or program(**inputs) has the outcome
\* call (a call that is not reached has no outcome of its own).
CapabilityRun(sig_raises, predict_raises, call) ==
    [sig_raises |-> sig_raises, predict_raises |-> predict_raises,
     call |-> call]

CapabilityRuns ==
    { CapabilityRun(TRUE, FALSE, Raised(CapabilityErrorText)),
      CapabilityRun(FALSE, TRUE, Raised(CapabilityErrorText)) }
      \cup { CapabilityRun(FALSE, FALSE, c) : c \in CallOutcomes }

\* k.startswith('_')
IsPrivate(k) == k \in {"_store", "_completions"}

(***************************************************************************)
(* DSPyBridge._execute_with_program_info: output extraction                *)
(***************************************************************************)
\* "[" in str(v) and "]" in str(v), v being an extracted text
LooksLikePlaceholder(text) ==
    "[" \in SeqRange(text) /\ "]" \in SeqRange(text)

\* not outputs or all(... for v in outputs.values())
EmptyOrAllPlaceholders(outputs) ==
    \A n \in DOMAIN outputs : LooksLikePlaceholder(outputs[n])

FieldNotFound(name) == << "Field '", name, "' not found in prediction." >>

Diagnostic ==
    << "[", "DEBUG: Empty completions, LM may not be responding. Store:",
       "<store>", "]" >>

\* outputs with outputs[n] = text for every n of names (dict update)
Update(outputs, names, text) ==
    [n \in DOMAIN outputs \cup names |->
        IF n \in names THEN text[n] ELSE outputs[n]]

\* hasattr-or-placeholder for each of names
ByAttribute(result, names) ==
    [n \in names |-> IF HasAttr(result, n) THEN Str(GetAttr(result, n))
                      ELSE FieldNotFound(n)]

\* First strategy: each entry of the field mapping that names a declared
\* output field.
ByFieldMapping(program_info, result) ==
    LET expected_outputs == Get(program_info.signature_def, "outputs", << >>)
    IN ByAttribute(result,
                   program_info.field_mapping \cap SeqRange(expected_outputs))

ExtractOutputs(program_info, result) ==
    LET expected_outputs == Get(program_info.signature_def, "outputs", << >>)
        expected == SeqRange(expected_outputs)
        \* first: through the field mapping
        o1 == ByFieldMapping(program_info, result)
        \* if outputs are still empty: the declared names themselves
        o2 == IF DOMAIN o1 = {} THEN ByAttribute(result, expected) ELSE o1
        special == EmptyOrAllPlaceholders(o2)
        \* result._store
        inStore == expected \cap DOMAIN result.store
        o3a == IF special /\ result.store # EmptyDict
               THEN Update(o2, inStore,
                           [n \in inStore |-> Str(result.store[n])])
               ELSE o2
        \* result._completions
        o3b == IF special /\ result.completions.state = "first"
                  /\ expected_outputs # << >>
               THEN Update(o3a, {expected_outputs[1]},
                           [n \in {expected_outputs[1]} |->
                               Str(result.completions.value)])
               ELSE o3a
        \* result.__dict__
        public == {k \in DOMAIN result.dict :
                      ~IsPrivate(k) /\ k # "completions"}
        o4 == IF special /\ DOMAIN o3b = {}
              THEN [k \in public |-> Str(result.dict[k])]
              ELSE o3b
    IN  IF EmptyOrAllPlaceholders(o4)
        THEN Update(o4, expected, [n \in expected |-> Diagnostic])
        ELSE o4

(***************************************************************************)
(* DSPyBridge handlers.  Each yields the result it returns together with   *)
(* the registry, the ping counter and the language-model globals it leaves.*)
(***************************************************************************)
LmGlobals(lm, type, config) ==
    [current_lm |-> lm, lm_type |-> type, lm_config |-> config]

Effect(result, progs, count, lm) ==
    [result |-> result, programs |-> progs, request_count |-> count,
     lm |-> lm]

\* model.startswith("gemini")
GeminiModels == {"gemini-pro", "gemini-flash"}
StartsWithGemini(model) == model \in GeminiModels

\* api_key[:8] + "..."
Masked(api_key) == << api_key, "..." >>

handle_ping(args, progs, count, lm, available) ==
    IF ~IsMapping(args)
    THEN [raised |-> TRUE, exc |-> AttributeErrorText,
          effect |-> Effect(NoneObj, progs, count + 1, lm)]
    ELSE [raised |-> FALSE, exc |-> << >>,
          effect |-> Effect(
              [status |-> "ok", bridge_type |-> "dspy",
               dspy_available |-> available, uptime |-> Now,
               mode |-> "pool-worker", timestamp |-> Now,
               worker_id |-> Get(args, "worker_id", "unknown")],
              progs, count + 1, lm)]

\* A truthy api_key that is not a str: a JSON array, which has a len() and
\* can be sliced, but cannot be concatenated with "...".
ListKey == "<list>"

\* Construct the LM, test it, and only then assign the globals, one after
\* the other: current_lm, lm_type, and lm_config, whose api_key[:8] + "..."
\* raises for a key that is not a str when the first two are assigned.
ConfigureOutcome(model, api_key, provider, lm, lm_raises) ==
    IF lm_raises
    THEN [result |-> ErrorResult(<< "LM configuration failed" >>
                                 \o CapabilityErrorText),
          lm |-> lm]
    ELSE IF api_key = ListKey
    THEN [result |-> ErrorResult(<< "LM configuration failed",
                                    "can only concatenate list to list" >>),
          lm |-> LmGlobals(model, "gemini", lm.lm_config)]
    ELSE [result |-> [status |-> "ok",
                      message |-> << "Configured language model", model >>,
                      model |-> model, provider |-> provider],
          lm |-> LmGlobals(model, "gemini",
                           [model |-> model, api_key |-> Masked(api_key),
                            provider |-> provider])]

\* lm_raises: whether dspy.LM(...) or the test call lm(...) raises.
handle_configure_lm(args, progs, count, lm, available, lm_raises) ==
    IF ~available
    THEN Effect(ErrorResult(<< "DSPy is not available" >>), progs, count, lm)
    ELSE IF ~IsMapping(args)
    THEN Effect(ErrorResult(<< "LM configuration failed" >>
                            \o AttributeErrorText), progs, count, lm)
    ELSE LET model == Get(args, "model", None)
             api_key == Get(args, "api_key", None)
             provider == Get(args, "provider", "google")
         IN IF FalsyStr(model)
            THEN Effect(ErrorResult(<< "Model name is required" >>),
                        progs, count, lm)
            ELSE IF FalsyStr(api_key)
            THEN Effect(ErrorResult(<< "API key is required" >>),
                        progs, count, lm)
            ELSE IF provider = "google" /\ StartsWithGemini(model)
            THEN LET o == ConfigureOutcome(model, api_key, provider, lm,
                                           lm_raises)
                 IN Effect(o.result, progs, count, o.lm)
            ELSE Effect(ErrorResult(<< "Unsupported provider/model",
                                       provider, model >>),
                        progs, count, lm)

handle_create_program(args, progs, count, lm, available, sig_raises, predict_raises) ==
    IF ~IsMapping(args)
    THEN Effect(ErrorResult(<< "Create program failed" >>
                            \o AttributeErrorText), progs, count, lm)
    ELSE LET program_id == Get(args, "id", None)
             signature == Get(args, "signature", NoneObj)
             program_type == Get(args, "program_type", "predict")
         IN IF FalsyStr(program_id)
            THEN Effect(ErrorResult(<< "Program ID is required" >>),
                        progs, count, lm)
            ELSE IF FalsyObj(signature)
            THEN Effect(ErrorResult(<< "Signature is required" >>),
                        progs, count, lm)
            ELSE LET o == create_program(progs, available, program_id,
                                         signature, program_type,
                                         sig_raises, predict_raises)
                 IN Effect(o.result, o.programs, count, lm)

\* A deliberately wrong variant: the language model is not checked.
RecreateNoLmCheck(program_data, lm, available, sig_raises, predict_raises) ==
    IF ~available
    THEN Raised(<< "DSPy not available - cannot recreate programs" >>)
    ELSE IF ~IsMapping(program_data)
    THEN Raised(<< "Failed to recreate program" >> \o AttributeErrorText)
    ELSE LET signature_def == Get(program_data, "signature_def", EmptyDict)
             built == build_signature(available, signature_def, sig_raises)
         IN IF built.raised
            THEN Raised(<< "Failed to recreate program" >> \o built.exc)
            ELSE Returned(
                   [field_mapping |-> built.value.field_mapping,
                    signature_def |-> signature_def,
                    program_id |-> Get(program_data, "program_id", None),
                    created_at |-> Get(program_data, "created_at", None),
                    execution_count |->
                        Get(program_data, "execution_count", 0)])

_recreate_program_from_data(program_data, lm, available, sig_raises, predict_raises) ==
    IF ~available
    THEN Raised(<< "DSPy not available - cannot recreate programs" >>)
    ELSE IF ~IsMapping(program_data)
    THEN Raised(<< "Failed to recreate program" >> \o AttributeErrorText)
    ELSE LET signature_def == Get(program_data, "signature_def", EmptyDict)
             built == build_signature(available, signature_def, sig_raises)
         IN IF built.raised
            THEN Raised(<< "Failed to recreate program" >> \o built.exc)
            ELSE IF lm.current_lm = None
            THEN Raised(<< "Failed to recreate program",
                           "No LM is loaded." >>)
            ELSE IF predict_raises
            THEN Raised(<< "Failed to recreate program" >>
                        \o CapabilityErrorText)
            ELSE Returned(
                   [field_mapping |-> built.value.field_mapping,
                    signature_def |-> signature_def,
                    program_id |-> Get(program_data, "program_id", None),
                    created_at |-> Get(program_data, "created_at", None),
                    execution_count |->
                        Get(program_data, "execution_count", 0)])

_execute_with_program_info(program_info, inputs, call) ==
    IF ~IsMapping(inputs)
    THEN ErrorResult(<< "Program execution failed",
                        "object has no attribute 'items'" >>)
    ELSE IF call.raised
    THEN ErrorResult(<< "Program execution failed" >> \o call.exc)
    ELSE [status |-> "ok",
          outputs |-> ExtractOutputs(program_info, call.value),
          program_id |-> program_info.program_id,
          execution_time |-> Now]

\* A deliberately wrong variant: a program_id that is registered locally is
\* run from the registry although a snapshot was supplied.
handle_execute_programLocalFirst(args, progs, count, lm, available, sig_raises, predict_raises, call) ==
    IF ~IsMapping(args)
    THEN Effect(ErrorResult(<< "Execute program failed" >>
                            \o AttributeErrorText), progs, count, lm)
    ELSE LET program_id == Get(args, "program_id", None)
             inputs == Get(args, "inputs", EmptyDict)
             program_data == Get(args, "program_data", NoneObj)
         IN IF FalsyStr(program_id)
            THEN Effect(ErrorResult(<< "Program ID is required" >>),
                        progs, count, lm)
            ELSE IF program_data # NoneObj /\ ~Contains(progs, program_id)
            THEN LET info == _recreate_program_from_data(
                                 program_data, lm, available, sig_raises,
                                 predict_raises)
                 IN IF info.raised
                    THEN Effect(ErrorResult(<< "Execute program failed" >>
                                            \o info.exc),
                                progs, count, lm)
                    ELSE Effect(_execute_with_program_info(
                                    info.value, inputs, call),
                                progs, count, lm)
            ELSE LET o == execute_program(progs, program_id, inputs, call)
                 IN Effect(o.result, o.programs, count, lm)

\* A deliberately wrong variant: the recreated record is kept in the local
\* registry under the request's program_id.
handle_execute_programStoring(args, progs, count, lm, available, sig_raises, predict_raises, call) ==
    IF ~IsMapping(args)
    THEN Effect(ErrorResult(<< "Execute program failed" >>
                            \o AttributeErrorText), progs, count, lm)
    ELSE LET program_id == Get(args, "program_id", None)
             inputs == Get(args, "inputs", EmptyDict)
             program_data == Get(args, "program_data", NoneObj)
         IN IF FalsyStr(program_id)
            THEN Effect(ErrorResult(<< "Program ID is required" >>),
                        progs, count, lm)
            ELSE IF program_data # NoneObj
            THEN LET info == _recreate_program_from_data(
                                 program_data, lm, available, sig_raises,
                                 predict_raises)
                 IN IF info.raised
                    THEN Effect(ErrorResult(<< "Execute program failed" >>
                                            \o info.exc),
                                progs, count, lm)
                    ELSE Effect(_execute_with_program_info(
                                    info.value, inputs, call),
                                DictSet(progs, program_id,
                                        NewRecord(program_id,
                                                  info.value.signature_def,
                                                  info.value.field_mapping,
                                                  "predict")),
                                count, lm)
            ELSE LET o == execute_program(progs, program_id, inputs, call)
                 IN Effect(o.result, o.programs, count, lm)

handle_execute_program(args, progs, count, lm, available, sig_raises, predict_raises, call) ==
    IF ~IsMapping(args)
    THEN Effect(ErrorResult(<< "Execute program failed" >>
                            \o AttributeErrorText), progs, count, lm)
    ELSE LET program_id == Get(args, "program_id", None)
             inputs == Get(args, "inputs", EmptyDict)
             program_data == Get(args, "program_data", NoneObj)
         IN IF FalsyStr(program_id)
            THEN Effect(ErrorResult(<< "Program ID is required" >>),
                        progs, count, lm)
            ELSE IF program_data # NoneObj
            THEN LET info == _recreate_program_from_data(
                                 program_data, lm, available, sig_raises,
                                 predict_raises)
                 IN IF info.raised
                    THEN Effect(ErrorResult(<< "Execute program failed" >>
                                            \o info.exc),
                                progs, count, lm)
                    ELSE Effect(_execute_with_program_info(
                                    info.value, inputs, call),
                                progs, count, lm)
            ELSE LET o == execute_program(progs, program_id, inputs, call)
                 IN Effect(o.result, o.programs, count, lm)

(***************************************************************************)
(* Response envelopes (ProtocolHandler.run).                               *)
(***************************************************************************)
\* A deliberately wrong variant: the success flag follows the status of the
\* result.
SuccessEnvelopeByStatus(request_id, result) ==
    [id |-> request_id, success |-> result.status = "ok", result |-> result,
     timestamp |-> Now]

\* A deliberately wrong variant: the envelope loses the request's id.
SuccessEnvelopeNoEcho(request_id, result) ==
    [id |-> None, success |-> TRUE, result |-> result, timestamp |-> Now]

SuccessEnvelope(request_id, result) ==
    [id |-> request_id, success |-> TRUE, result |-> result, timestamp |-> Now]

ErrorEnvelope(request_id, text) ==
    [id |-> request_id, success |-> FALSE, error |-> text, timestamp |-> Now]

(***************************************************************************)
(* State.                                                                  *)
(***************************************************************************)
VARIABLES
    pc,              \* position of ProtocolHandler.run
    request,         \* run's local: the value read_message returned
    response,        \* run's local: the envelope about to be written
    programs,        \* DSPyProgramManager.programs, in insertion order
    request_count,   \* DSPyBridge.request_count
    current_lm,      \* module global current_lm
    lm_type,         \* module global lm_type
    lm_config,       \* module global lm_config
    DSPY_AVAILABLE,  \* module global, fixed at import time
    readLog,         \* history: correlation id of every request read
    outLog,          \* history: every envelope fully written to stdout
    before,          \* history: registry and globals when dispatch began
    loopExit,        \* history: how run() was left ("none": still looping)
    invoked,         \* history: outcome of program(**inputs) in this request
    wire,            \* bytes written to a stream and not yet read from it
    sent,            \* history: the documents written to the stream
    received         \* history: what read_message returned, read by read

vars == << pc, request, response, programs, request_count, current_lm,
           lm_type, lm_config, DSPY_AVAILABLE, readLog, outLog, before,
           loopExit, invoked, wire, sent, received >>

\* The state of the bridge process, and the state of a byte stream with a
\* writer at one end and a reader at the other.
bridgeVars == << pc, request, response, programs, request_count, current_lm,
                 lm_type, lm_config, DSPY_AVAILABLE, readLog, outLog, before,
                 loopExit, invoked >>
streamVars == << wire, sent, received >>

\* run's locals before the first read and between iterations: once the
\* response is written they are dead, and a dead local is reset so that it
\* does not distinguish states.
Unbound == [kind |-> "unbound"]

(***************************************************************************)
(* The input stream.  A frame is what the stream yields at one read: how   *)
(* many of the 4 header bytes arrive, whether all declared payload bytes   *)
(* arrive, and what the payload bytes are.                                 *)
(***************************************************************************)
HeaderSize == 4

MalformedPayload == [kind |-> "malformed"]
NullDocument == [kind |-> "null"]
NonMappingDocument == [kind |-> "nonmapping"]
RequestDocument(id, command, args) ==
    [kind |-> "mapping", id |-> id, command |-> command, args |-> args]

PingArgs == {OtherArgs, [worker_id |-> "w1"], BadArgs}

ConfigureArgs ==
    { [model |-> m, api_key |-> "sk-1", provider |-> "google"] :
        m \in GeminiModels }
      \cup { [model |-> "gemini-pro", api_key |-> "sk-1"],
             [model |-> "", api_key |-> "sk-1", provider |-> "google"],
             [model |-> "gemini-pro", api_key |-> "", provider |-> "google"],
             [model |-> "gemini-pro", api_key |-> ListKey,
              provider |-> "google"],
             [model |-> "gemini-pro", api_key |-> "sk-1",
              provider |-> "openai"],
             [model |-> "gpt-4", api_key |-> "sk-1", provider |-> "google"],
             OtherArgs, BadArgs }

CreateArgs ==
    { [id |-> i, signature |-> sg] :
        i \in ProgramIds, sg \in {SigQA, SigNoOut} }
      \cup { [id |-> i, signature |-> sg, program_type |-> t] :
                i \in {"p1"}, sg \in {SigQA, BadSig},
                t \in {"predict", "chain_of_thought"} }
      \cup { [id |-> "", signature |-> SigQA],
             [id |-> "p1", signature |-> EmptyDict],
             [id |-> "p1"], OtherArgs, BadArgs }

GoodInputs == [question |-> "2+2?"]
InputValues == {GoodInputs, BadArgs}

\* Snapshots of a program record as an external store would supply them
\* ("p3" is an id that is never created locally), and a program_data that
\* is not a mapping.
Snapshots ==
    { [program_id |-> "p1", signature_def |-> sg, execution_count |-> 0] :
        sg \in {SigQA, SigNoOut, BadSig} }
      \cup { [program_id |-> "p3", signature_def |-> SigQA,
              execution_count |-> 0],
             EmptyDict, BadArgs }

ExecuteArgs ==
    { [program_id |-> i, inputs |-> inp] :
        i \in ProgramIdArgs, inp \in InputValues }
      \cup { [program_id |-> i, inputs |-> GoodInputs, program_data |-> d] :
                i \in {"p1", ""}, d \in Snapshots }
      \cup { [program_id |-> "p1", inputs |-> BadArgs,
              program_data |-> [program_id |-> "p1",
                                signature_def |-> SigQA,
                                execution_count |-> 0]],
             [program_id |-> "p1"], OtherArgs, BadArgs }

ProgramIdOnlyArgs ==
    { [program_id |-> i] : i \in ProgramIdArgs } \cup {OtherArgs, BadArgs}

ArgsOf(command) ==
    CASE command = "ping" -> PingArgs
      [] command = "configure_lm" -> ConfigureArgs
      [] command = "create_program" -> CreateArgs
      [] command = "execute_program" -> ExecuteArgs
      [] command \in {"get_program", "delete_program"} -> ProgramIdOnlyArgs
      [] OTHER -> {OtherArgs, BadArgs}

RequestDocuments ==
    UNION { { RequestDocument(i, c, a) : i \in CorrelationIds,
                                          a \in ArgsOf(c) } :
            c \in CommandValues }

Payloads ==
    {MalformedPayload, NullDocument, NonMappingDocument}
        \cup RequestDocuments

Frame(header_bytes, payload_complete, payload) ==
    [header_bytes |-> header_bytes, payload_complete |-> payload_complete,
     payload |-> payload]

\* What the bytes of a payload cut short may happen to decode to, were
\* they parsed: nothing, or a shorter document.
CutPayloads ==
    {MalformedPayload, NonMappingDocument,
     RequestDocument("r1", "list_programs", OtherArgs)}

\* The stream ends at once, ends inside the header, ends inside the
\* payload, or delivers a whole frame.
Frames ==
    { Frame(h, FALSE, MalformedPayload) : h \in {0, 2} }
      \cup { Frame(HeaderSize, FALSE, d) : d \in CutPayloads }
      \cup { Frame(HeaderSize, TRUE, d) : d \in Payloads }

\* Why read_message returns None for a frame, if it does.
ReadFault(frame) ==
    IF frame.header_bytes # HeaderSize THEN "end_of_stream"
    ELSE IF ~frame.payload_complete THEN "truncated_frame"
    ELSE IF frame.payload = MalformedPayload THEN "undecodable_payload"
    ELSE IF frame.payload = NullDocument THEN "null_document"
    ELSE "none"

\* A deliberately wrong variant: the payload is parsed without the check
\* of its length.
read_messageNoLengthCheck(frame) ==
    IF frame.header_bytes # HeaderSize THEN NullDocument
    ELSE IF frame.payload = MalformedPayload THEN NullDocument
    ELSE frame.payload

\* ProtocolHandler.read_message: None, or the decoded document.
read_message(frame) ==
    IF frame.header_bytes # HeaderSize THEN NullDocument
    ELSE IF ~frame.payload_complete THEN NullDocument
    ELSE IF frame.payload = MalformedPayload THEN NullDocument
    ELSE frame.payload

(***************************************************************************)
(* ProtocolHandler.write_message                                           *)
(***************************************************************************)
\* json.dumps(message) succeeds: the only values of a response that do not
\* come from JSON or from str() are the raw outputs of the registry path.
Serializable(message) ==
    IF message.success /\ "execution_count" \in DOMAIN message.result
                       /\ "outputs" \in DOMAIN message.result
    THEN \A n \in DOMAIN message.result.outputs :
            JsonValue(message.result.outputs[n])
    ELSE TRUE

\* io_fails: whether writing to or flushing stdout raises.
write_message(message, io_fails) == Serializable(message) /\ ~io_fails

\* What the history keeps of a written envelope.
Written(message) ==
    [id |-> message.id, success |-> message.success,
     fields |-> DOMAIN message]

(***************************************************************************)
(* The wire format, byte by byte.  A document is the Python value that     *)
(* json.loads yields: None for null, a str, a list, a dict with its keys   *)
(* in insertion order, a bool, a non-negative int.  Floats and negative    *)
(* numbers are left out; a str holds plain ASCII letters, which json.dumps *)
(* writes one byte each.                                                   *)
(***************************************************************************)
\* Number of frames written to the stream; length of the longest string.
MaxFrames == 3
LongStringLen == 300

JStr(bytes) == [kind |-> "str", s |-> bytes]
JList(items) == [kind |-> "list", items |-> items]
JDict(keys, values) == [kind |-> "dict", keys |-> keys, values |-> values]
JBool(b) == [kind |-> "bool", b |-> b]
JInt(n) == [kind |-> "int", n |-> n]

\* ord() of the bytes the encoder writes.
Ascii ==
    [quote |-> 34, comma |-> 44, colon |-> 58, lbracket |-> 91,
     rbracket |-> 93, lbrace |-> 123, rbrace |-> 125, a |-> 97, k |-> 107,
     m |-> 109, zero |-> 48, nine |-> 57]

\* b"null"
NullText == << 110, 117, 108, 108 >>
\* b"true", b"false"
TrueText == << 116, 114, 117, 101 >>
FalseText == << 102, 97, 108, 115, 101 >>

\* str(n).encode() for n >= 0, and int() of such digits.
RECURSIVE Digits(_), FromDigits(_)
Digits(n) ==
    IF n < 10 THEN << Ascii.zero + n >>
    ELSE Digits(n \div 10) \o << Ascii.zero + (n % 10) >>

FromDigits(digits) ==
    IF Len(digits) = 1 THEN digits[1] - Ascii.zero
    ELSE FromDigits(SubSeq(digits, 1, Len(digits) - 1)) * 10
            + (digits[Len(digits)] - Ascii.zero)

LongString == [i \in 1..LongStringLen |-> Ascii.a]

Documents ==
    { NullDocument,
      JStr(<< >>), JStr(<< Ascii.a >>), JStr(LongString),
      JList(<< >>), JList(<< NullDocument, JStr(<< Ascii.a >>) >>),
      JDict(<< >>, << >>),
      JDict(<< << Ascii.k >> >>, << JList(<< JStr(<< Ascii.a >>) >>) >>),
      JDict(<< << Ascii.k >>, << Ascii.m >> >>,
            << JBool(TRUE), JList(<< JInt(0), JInt(1207), JBool(FALSE) >>) >>) }

\* json.dumps(v, separators=(',', ':')).encode('utf-8')
RECURSIVE dumps(_), dumpsItems(_), dumpsPairs(_, _)
dumps(v) ==
    CASE v.kind = "null" -> NullText
      [] v.kind = "bool" -> IF v.b THEN TrueText ELSE FalseText
      [] v.kind = "int" -> Digits(v.n)
      [] v.kind = "str" -> << Ascii.quote >> \o v.s \o << Ascii.quote >>
      [] v.kind = "list" ->
            << Ascii.lbracket >> \o dumpsItems(v.items) \o << Ascii.rbracket >>
      [] v.kind = "dict" ->
            << Ascii.lbrace >> \o dumpsPairs(v.keys, v.values)
                \o << Ascii.rbrace >>

dumpsItems(items) ==
    IF items = << >> THEN << >>
    ELSE dumps(Head(items))
            \o (IF Len(items) > 1
                THEN << Ascii.comma >> \o dumpsItems(Tail(items))
                ELSE << >>)

dumpsPairs(keys, values) ==
    IF keys = << >> THEN << >>
    ELSE << Ascii.quote >> \o Head(keys) \o << Ascii.quote, Ascii.colon >>
            \o dumps(Head(values))
            \o (IF Len(keys) > 1
                THEN << Ascii.comma >> \o dumpsPairs(Tail(keys), Tail(values))
                ELSE << >>)

\* json.loads: a parse either fails (JSONDecodeError) or yields a value and
\* the position after it.
Fail == [ok |-> FALSE]
Parsed(value, next) == [ok |-> TRUE, value |-> value, next |-> next]

\* The byte at pos, or -1 past the end of the text.
At(text, pos) == IF pos \in DOMAIN text THEN text[pos] ELSE -1

\* The string that starts with the quote at pos: its bytes, up to the next
\* quote.
loadsString(text, pos) ==
    LET closing == {i \in DOMAIN text : i > pos /\ text[i] = Ascii.quote}
    IN IF closing = {} THEN Fail
       ELSE LET c == CHOOSE i \in closing : \A j \in closing : i <= j
            IN Parsed(SubSeq(text, pos + 1, c - 1), c + 1)

\* The literal word at pos, if the text holds it there.
loadsLiteral(text, pos, word, value) ==
    IF pos + Len(word) - 1 <= Len(text)
       /\ SubSeq(text, pos, pos + Len(word) - 1) = word
    THEN Parsed(value, pos + Len(word))
    ELSE Fail

IsDigit(byte) == byte >= Ascii.zero /\ byte <= Ascii.nine

\* The number that starts with the digit at pos: its digits, up to the
\* first byte that is not one; a leading zero stands alone.
loadsInt(text, pos) ==
    LET after == {i \in DOMAIN text : i > pos /\ ~IsDigit(text[i])}
        stop == IF after = {} THEN Len(text) + 1
                ELSE CHOOSE i \in after : \A j \in after : i <= j
    IN IF text[pos] = Ascii.zero /\ stop > pos + 1 THEN Fail
       ELSE Parsed(JInt(FromDigits(SubSeq(text, pos, stop - 1))), stop)

RECURSIVE loadsValue(_, _), loadsItems(_, _, _), loadsPairs(_, _, _, _)
loadsValue(text, pos) ==
    CASE At(text, pos) = Ascii.quote ->
            LET r == loadsString(text, pos)
            IN IF r.ok THEN Parsed(JStr(r.value), r.next) ELSE Fail
      [] At(text, pos) = NullText[1] ->
            loadsLiteral(text, pos, NullText, NullDocument)
      [] At(text, pos) = TrueText[1] ->
            loadsLiteral(text, pos, TrueText, JBool(TRUE))
      [] At(text, pos) = FalseText[1] ->
            loadsLiteral(text, pos, FalseText, JBool(FALSE))
      [] IsDigit(At(text, pos)) -> loadsInt(text, pos)
      [] At(text, pos) = Ascii.lbracket ->
            IF At(text, pos + 1) = Ascii.rbracket
            THEN Parsed(JList(<< >>), pos + 2)
            ELSE loadsItems(text, pos + 1, << >>)
      [] At(text, pos) = Ascii.lbrace ->
            IF At(text, pos + 1) = Ascii.rbrace
            THEN Parsed(JDict(<< >>, << >>), pos + 2)
            ELSE loadsPairs(text, pos + 1, << >>, << >>)
      [] OTHER -> Fail

loadsItems(text, pos, items) ==
    LET r == loadsValue(text, pos)
    IN IF ~r.ok THEN Fail
       ELSE IF At(text, r.next) = Ascii.comma
       THEN loadsItems(text, r.next + 1, Append(items, r.value))
       ELSE IF At(text, r.next) = Ascii.rbracket
       THEN Parsed(JList(Append(items, r.value)), r.next + 1)
       ELSE Fail

loadsPairs(text, pos, keys, values) ==
    IF At(text, pos) # Ascii.quote THEN Fail
    ELSE LET key == loadsString(text, pos)
         IN IF ~key.ok THEN Fail
            ELSE IF At(text, key.next) # Ascii.colon THEN Fail
            ELSE LET r == loadsValue(text, key.next + 1)
                 IN IF ~r.ok THEN Fail
                    ELSE IF At(text, r.next) = Ascii.comma
                    THEN loadsPairs(text, r.next + 1,
                                    Append(keys, key.value),
                                    Append(values, r.value))
                    ELSE IF At(text, r.next) = Ascii.rbrace
                    THEN Parsed(JDict(Append(keys, key.value),
                                      Append(values, r.value)),
                                r.next + 1)
                    ELSE Fail

\* json.loads(json_data): the whole text must be one value.
loads(text) ==
    LET r == loadsValue(text, 1)
    IN IF r.ok /\ r.next = Len(text) + 1 THEN r ELSE Fail

\* A deliberately wrong variant: struct.pack('<I', n).
LittleEndian(n) ==
    << n % 256, (n \div 256) % 256, (n \div 65536) % 256,
       (n \div 16777216) % 256 >>

\* struct.pack('>I', n)
BigEndian(n) ==
    << (n \div 16777216) % 256, (n \div 65536) % 256, (n \div 256) % 256,
       n % 256 >>

\* struct.unpack('>I', length_data)[0]
FromBigEndian(b) == ((b[1] * 256 + b[2]) * 256 + b[3]) * 256 + b[4]

\* The bytes write_message puts on the stream for message.
write_message_bytes(message) ==
    LET json_data == dumps(message)
        length == BigEndian(Len(json_data))
    IN length \o json_data

\* read_message on a stream that holds the bytes of stream and then ends:
\* what it returns (None: NullDocument) and the bytes it leaves unread.
read_message_bytes(stream) ==
    IF Len(stream) < HeaderSize
    THEN [message |-> NullDocument, rest |-> << >>]
    ELSE LET length == FromBigEndian(SubSeq(stream, 1, HeaderSize))
         IN IF Len(stream) - HeaderSize < length
            THEN [message |-> NullDocument, rest |-> << >>]
            ELSE LET json_data == SubSeq(stream, HeaderSize + 1,
                                         HeaderSize + length)
                     r == loads(json_data)
                 IN [message |-> IF r.ok THEN r.value ELSE NullDocument,
                     rest |-> SubSeq(stream, HeaderSize + length + 1,
                                     Len(stream))]

(***************************************************************************)
(* Initial state: the module globals after import, a fresh ProtocolHandler,*)
(* run() about to read.                                                    *)
(***************************************************************************)
NoLm == LmGlobals(None, None, EmptyDict)

Lm == LmGlobals(current_lm, lm_type, lm_config)

Init ==
    /\ pc = "AWAITING_REQUEST"
    /\ request = Unbound
    /\ response = Unbound
    /\ programs = << >>
    /\ request_count = 0
    /\ current_lm = None
    /\ lm_type = None
    /\ lm_config = EmptyDict
    /\ DSPY_AVAILABLE \in BOOLEAN
    /\ readLog = << >>
    /\ outLog = << >>
    /\ before = Unbound
    /\ loopExit = "none"
    /\ invoked = Unbound
    /\ wire = << >>
    /\ sent = << >>
    /\ received = << >>

(***************************************************************************)
(* ProtocolHandler.run, one iteration: read.                               *)
(***************************************************************************)
\* Reads one frame.  None ends the loop; a document that is not a mapping
\* makes request.get raise outside every try, which ends run() with the
\* exception; otherwise id, command and args are extracted.
ReadMessageAt(positions) ==
    /\ pc \in positions
    /\ \E frame \in Frames :
         LET message == read_message(frame)
         IN /\ (Len(readLog) < MaxRequests \/ message = NullDocument)
            /\ IF message = NullDocument
               THEN /\ pc' = "CLOSED"
                    /\ request' = message
                    /\ readLog' = readLog
                    /\ loopExit' = ReadFault(frame)
               ELSE IF message.kind # "mapping"
               THEN /\ pc' = "CRASHED"
                    /\ request' = message
                    /\ readLog' = readLog
                    /\ loopExit' = "exception"
               ELSE /\ pc' = "DISPATCHING"
                    /\ request' = message
                    /\ readLog' = Append(readLog, message.id)
                    /\ loopExit' = ReadFault(frame)
    /\ UNCHANGED << response, programs, request_count, current_lm, lm_type,
                    lm_config, DSPY_AVAILABLE, outLog, before, invoked >>
    /\ UNCHANGED streamVars

\* A deliberately wrong variant: the next request is read while the
\* previous response is still waiting to be written.
ReadMessagePipelined ==
    ReadMessageAt({"AWAITING_REQUEST", "EMITTING_RESPONSE"})

ReadMessage == ReadMessageAt({"AWAITING_REQUEST"})

(***************************************************************************)
(* DSPyBridge.process_command, one action per entry of the handlers table, *)
(* followed by the construction of the envelope in run().                  *)
(***************************************************************************)
Dispatching(command) ==
    /\ pc = "DISPATCHING"
    /\ request.command = command

\* The handler returned effect.result and left effect's state.
Respond(effect) ==
    /\ response' = SuccessEnvelope(request.id, effect.result)
    /\ programs' = effect.programs
    /\ request_count' = effect.request_count
    /\ current_lm' = effect.lm.current_lm
    /\ lm_type' = effect.lm.lm_type
    /\ lm_config' = effect.lm.lm_config
    /\ pc' = "EMITTING_RESPONSE"
    /\ before' = [programs |-> programs, lm |-> Lm,
                  request_count |-> request_count]
    /\ invoked' = IF "invoked" \in DOMAIN effect THEN effect.invoked
                  ELSE Unbound
    /\ UNCHANGED << request, DSPY_AVAILABLE, readLog, outLog, loopExit >>
    /\ UNCHANGED streamVars

\* except Exception in process_command
CommandFailed(command, exc) ==
    ErrorResult(<< "Command failed", command >> \o exc)

HandlePing ==
    /\ Dispatching("ping")
    /\ LET h == handle_ping(request.args, programs, request_count, Lm,
                            DSPY_AVAILABLE)
       IN IF h.raised
          THEN Respond([h.effect EXCEPT
                           !.result = CommandFailed("ping", h.exc)])
          ELSE Respond(h.effect)

HandleConfigureLm ==
    /\ Dispatching("configure_lm")
    /\ \E lm_raises \in BOOLEAN :
         Respond(handle_configure_lm(request.args, programs, request_count,
                                     Lm, DSPY_AVAILABLE, lm_raises))

HandleCreateProgram ==
    /\ Dispatching("create_program")
    /\ \E sig_raises \in BOOLEAN, predict_raises \in BOOLEAN :
         Respond(handle_create_program(request.args, programs, request_count,
                                       Lm, DSPY_AVAILABLE, sig_raises,
                                       predict_raises))

\* Whether handle_execute_program gets as far as program(**inputs): on the
\* recreation path once the program is recreated, on the registry path
\* once the record is found; the inputs are unpacked first on both.
ReachesInvocation(args, progs, lm, available, sig_raises, predict_raises) ==
    /\ IsMapping(args)
    /\ ~FalsyStr(Get(args, "program_id", None))
    /\ IsMapping(Get(args, "inputs", EmptyDict))
    /\ IF Get(args, "program_data", NoneObj) # NoneObj
       THEN ~_recreate_program_from_data(args.program_data, lm, available,
                                         sig_raises, predict_raises).raised
       ELSE Contains(progs, args.program_id)

HandleExecuteProgram ==
    /\ Dispatching("execute_program")
    /\ \E cap \in CapabilityRuns :
         LET effect == handle_execute_program(
                           request.args, programs, request_count, Lm,
                           DSPY_AVAILABLE, cap.sig_raises,
                           cap.predict_raises, cap.call)
         IN IF ReachesInvocation(request.args, programs, Lm, DSPY_AVAILABLE,
                                 cap.sig_raises, cap.predict_raises)
            THEN Respond(effect @@ [invoked |-> cap.call])
            ELSE Respond(effect)

\* lambda args: self.program_manager.get_program(args.get("program_id"))
HandleGetProgram ==
    /\ Dispatching("get_program")
    /\ IF ~IsMapping(request.args)
       THEN Respond(Effect(CommandFailed("get_program", AttributeErrorText),
                           programs, request_count, Lm))
       ELSE Respond(Effect(get_program(programs,
                                       Get(request.args, "program_id", None)),
                           programs, request_count, Lm))

\* lambda args: self.program_manager.list_programs()
HandleListPrograms ==
    /\ Dispatching("list_programs")
    /\ Respond(Effect(list_programs(programs), programs, request_count, Lm))

\* lambda args: self.program_manager.delete_program(args.get("program_id"))
HandleDeleteProgram ==
    /\ Dispatching("delete_program")
    /\ IF ~IsMapping(request.args)
       THEN Respond(Effect(CommandFailed("delete_program",
                                         AttributeErrorText),
                           programs, request_count, Lm))
       ELSE LET o == delete_program(programs,
                                    Get(request.args, "program_id", None))
            IN Respond(Effect(o.result, o.programs, request_count, Lm))

\* lambda args: self.program_manager.clear_session()
HandleClearSession ==
    /\ Dispatching("clear_session")
    /\ LET o == clear_session(programs)
       IN Respond(Effect(o.result, o.programs, request_count, Lm))

\* handlers.get(command) is None: no handler runs.
UnknownCommand ==
    /\ pc = "DISPATCHING"
    /\ request.command \notin SeqRange(SupportedCommands)
    /\ request.command # Unhashable
    /\ Respond(Effect([status |-> "error",
                       error |-> << "Unknown command", request.command >>,
                       supported_commands |-> SupportedCommands],
                      programs, request_count, Lm))

\* handlers.get(command) raises TypeError for an unhashable command: the
\* except clause of run() builds the failure envelope.
DispatchRaises ==
    /\ pc = "DISPATCHING"
    /\ request.command = Unhashable
    /\ response' = ErrorEnvelope(request.id, << "unhashable type" >>)
    /\ pc' = "EMITTING_RESPONSE"
    /\ before' = [programs |-> programs, lm |-> Lm,
                  request_count |-> request_count]
    /\ invoked' = Unbound
    /\ UNCHANGED << request, loopExit, programs, request_count, current_lm,
                    lm_type, lm_config, DSPY_AVAILABLE, readLog, outLog >>
    /\ UNCHANGED streamVars

(***************************************************************************)
(* ProtocolHandler.run, one iteration: write the response.                 *)
(***************************************************************************)
WriteResponse ==
    /\ pc = "EMITTING_RESPONSE"
    /\ \E io_fails \in BOOLEAN :
         IF write_message(response, io_fails)
         THEN /\ outLog' = Append(outLog, Written(response))
              /\ pc' = "AWAITING_REQUEST"
              /\ request' = Unbound
              /\ response' = Unbound
              /\ before' = Unbound
              /\ invoked' = Unbound
              /\ loopExit' = loopExit
         ELSE /\ outLog' = outLog
              /\ pc' = "CLOSED"
              /\ loopExit' = "write_failed"
              /\ UNCHANGED << request, response, before, invoked >>
    /\ UNCHANGED << programs, request_count, current_lm, lm_type, lm_config,
                    DSPY_AVAILABLE, readLog >>
    /\ UNCHANGED streamVars

Next ==
    \/ ReadMessage
    \/ HandlePing
    \/ HandleConfigureLm
    \/ HandleCreateProgram
    \/ HandleExecuteProgram
    \/ HandleGetProgram
    \/ HandleListPrograms
    \/ HandleDeleteProgram
    \/ HandleClearSession
    \/ UnknownCommand
    \/ DispatchRaises
    \/ WriteResponse

Spec == Init /\ [][Next]_vars

\* run() is a single thread that always takes its next step; a read of an
\* ended stream returns, and every capability call is assumed to return.
FairSpec == Spec /\ WF_vars(Next)

(***************************************************************************)
(* A byte stream with write_message at one end and read_message at the     *)
(* other, as between the bridge and its peer: the writer puts whole frames *)
(* on the stream, the reader takes one message per call.                   *)
(***************************************************************************)
WriteFrame ==
    /\ Len(sent) < MaxFrames
    /\ \E message \in Documents :
         /\ wire' = wire \o write_message_bytes(message)
         /\ sent' = Append(sent, message)
    /\ UNCHANGED received
    /\ UNCHANGED bridgeVars

ReadFrame ==
    /\ wire # << >>
    /\ LET r == read_message_bytes(wire)
       IN /\ received' = Append(received, r.message)
          /\ wire' = r.rest
    /\ UNCHANGED sent
    /\ UNCHANGED bridgeVars

FramingNext == WriteFrame \/ ReadFrame

FramingSpec == Init /\ [][FramingNext]_vars

(***************************************************************************)
(* Properties.                                                             *)
(***************************************************************************)
Emitting == pc = "EMITTING_RESPONSE"

\* The handler of command has just returned to run().
Handled(command) == Emitting /\ request.command = command

\* ... and returned a result whose status is "ok".
HandledOk(command) ==
    /\ Handled(command)
    /\ response.success
    /\ response.result.status = "ok"

\* The execution counter that get_program and list_programs report.
ReportedCount(progs, program_id) ==
    get_program(progs, program_id).execution_count

ListedCount(progs, program_id) ==
    LET listed == list_programs(progs).programs
    IN listed[CHOOSE i \in DOMAIN listed :
                  listed[i].program_id = program_id].execution_count

NotFound(program_id) == ErrorResult(<< "Program not found", program_id >>)

(* C1: the loop never pipelines.  At most one request is in flight, a new  *)
(* request is read only when every earlier one has had its response fully  *)
(* written, and the k-th response written answers the k-th request read.   *)
C1_NoPipelining ==
    /\ Len(outLog) <= Len(readLog)
    /\ Len(readLog) <= Len(outLog) + 1
    /\ (pc = "AWAITING_REQUEST" => Len(outLog) = Len(readLog))
    /\ \A k \in 1..Len(outLog) : outLog[k].id = readLog[k]

\* Two responses are out, in the order of their (different) requests, and
\* a third request is being dispatched.
C1_Witness ==
    /\ pc = "DISPATCHING"
    /\ Len(outLog) = 2
    /\ outLog[1].id = "r1"
    /\ outLog[2].id = None

(* C2: every envelope the loop builds and writes carries the correlation   *)
(* id of the request read immediately before it, for every command and for *)
(* both the success and the failure envelope.                              *)
C2_EchoesCorrelationId ==
    /\ Emitting => /\ response.id = request.id
                   /\ response.id = readLog[Len(readLog)]
    /\ \A k \in 1..Len(outLog) : outLog[k].id = readLog[k]

\* A failure envelope for request "r1" has been written, and a success
\* envelope that carries an error result echoes "r1" as well.
C2_Witness ==
    /\ Emitting
    /\ Len(outLog) >= 1
    /\ outLog[1].id = "r1" /\ ~outLog[1].success
    /\ response.id = "r1" /\ response.success
    /\ response.result.status = "error"

(* C3: nothing but a transport fault ends the loop: run() is left only     *)
(* when the input stream ends or delivers a truncated frame, or when a     *)
(* response cannot be written; never for a frame that was decoded, and     *)
(* never by an exception.                                                  *)
C3_OnlyTransportFaultEndsLoop ==
    loopExit \in {"none", "end_of_stream", "truncated_frame", "write_failed"}

(* C4: the loop moves AWAITING_REQUEST -> DISPATCHING -> EMITTING_RESPONSE *)
(* -> AWAITING_REQUEST, enters CLOSED from AWAITING_REQUEST when the read  *)
(* reports end of stream or from EMITTING_RESPONSE when the write fails,   *)
(* does nothing after CLOSED, and eventually reaches CLOSED.               *)
C4_Step ==
    /\ pc' # pc =>
          << pc, pc' >> \in
             { << "AWAITING_REQUEST", "DISPATCHING" >>,
               << "DISPATCHING", "EMITTING_RESPONSE" >>,
               << "EMITTING_RESPONSE", "AWAITING_REQUEST" >>,
               << "AWAITING_REQUEST", "CLOSED" >>,
               << "EMITTING_RESPONSE", "CLOSED" >> }
    /\ (pc = "AWAITING_REQUEST" /\ pc' = "CLOSED") => request' = NullDocument
    /\ (pc = "EMITTING_RESPONSE" /\ pc' = "CLOSED") =>
          loopExit' = "write_failed"
    /\ pc = "CLOSED" => UNCHANGED vars

C4_ProtocolLoopStates == [][C4_Step]_vars /\ <>(pc = "CLOSED")

WellFormed(fields, success) ==
    /\ {"id", "success", "timestamp"} \subseteq fields
    /\ "result" \in fields <=> success
    /\ "error" \in fields <=> ~success

\* The request bound by run() is still waiting for its response.
InFlight == pc \in {"DISPATCHING", "EMITTING_RESPONSE"}

(* C5: every request that the loop reads is answered by a well-formed      *)
(* envelope: every envelope built or written has id, success and           *)
(* timestamp, result exactly when success is true and error exactly when   *)
(* it is false; and, unless writing the response itself failed, no decoded *)
(* request is left behind without its envelope.                            *)
C5_EveryRequestAnswered ==
    /\ \A k \in 1..Len(outLog) :
          WellFormed(outLog[k].fields, outLog[k].success)
    /\ Emitting => WellFormed(DOMAIN response, response.success)
    /\ (~InFlight /\ loopExit # "write_failed") =>
          /\ request \in {Unbound, NullDocument}
          /\ Len(outLog) = Len(readLog)

(* C6: the execution counter is 0 right after a successful create, and a   *)
(* successful registry-path execute raises the counter that get and list   *)
(* report for that id by exactly 1 and returns the new value.              *)
C6_CounterCountsExecutes ==
    /\ HandledOk("create_program") =>
          /\ ReportedCount(programs, request.args.id) = 0
          /\ ListedCount(programs, request.args.id) = 0
    /\ (HandledOk("execute_program")
           /\ "program_data" \notin DOMAIN request.args) =>
          LET id == request.args.program_id
          IN /\ ReportedCount(programs, id)
                  = ReportedCount(before.programs, id) + 1
             /\ ListedCount(programs, id) = ReportedCount(programs, id)
             /\ response.result.execution_count
                  = ReportedCount(programs, id)

\* The second successful execute of a program has just returned 2.
C6_Witness ==
    /\ HandledOk("execute_program")
    /\ "program_data" \notin DOMAIN request.args
    /\ response.result.execution_count = 2
    /\ ReportedCount(before.programs, request.args.program_id) = 1

\* command was asked for a program id that was not in the registry.
AskedUnregistered(command) ==
    /\ Handled(command)
    /\ IsMapping(request.args)
    /\ "program_id" \in DOMAIN request.args
    /\ "program_data" \notin DOMAIN request.args
    /\ ~Contains(before.programs, request.args.program_id)

AnsweredNotFound ==
    /\ response.success
    /\ response.result = NotFound(request.args.program_id)
    /\ programs = before.programs

(* C7 as stated: for any id that is not in the registry, execute without a *)
(* snapshot, get and delete each return NotFound for that id and leave the *)
(* registry unchanged.                                                     *)
C7_UnregisteredIsNotFound ==
    \A command \in {"execute_program", "get_program", "delete_program"} :
        AskedUnregistered(command) => AnsweredNotFound

(* C7 amended: the same for any non-empty id; for the empty id get and     *)
(* delete still return NotFound, while execute rejects it with "Program ID *)
(* is required", the registry being unchanged in every case.               *)
C7_NonEmptyUnregisteredIsNotFound ==
    /\ \A command \in {"get_program", "delete_program"} :
          AskedUnregistered(command) => AnsweredNotFound
    /\ AskedUnregistered("execute_program") =>
          IF request.args.program_id # ""
          THEN AnsweredNotFound
          ELSE /\ response.success
               /\ response.result
                    = ErrorResult(<< "Program ID is required" >>)
               /\ programs = before.programs

\* execute of "p1", which is not registered while "p2" is, was answered
\* NotFound.
C7_Witness ==
    /\ AskedUnregistered("execute_program")
    /\ request.args.program_id = "p1"
    /\ Contains(programs, "p2")
    /\ response.result = NotFound("p1")

(* C8: a successful create of an already registered id replaces the prior  *)
(* record: no id has two records, list's count is the number of distinct   *)
(* registered ids, and get returns the specification of the latest create. *)
C8_CreateReplaces ==
    /\ \A i, j \in DOMAIN programs :
          programs[i].program_id = programs[j].program_id => i = j
    /\ list_programs(programs).count = Cardinality(Keys(programs))
    /\ HandledOk("create_program") =>
          /\ get_program(programs, request.args.id).signature_def
               = request.args.signature
          /\ Keys(programs) = Keys(before.programs) \cup {request.args.id}

\* A create has just replaced the only record, which held another
\* specification: the registry still holds one record.
C8_Witness ==
    /\ HandledOk("create_program")
    /\ Contains(before.programs, request.args.id)
    /\ Lookup(before.programs, request.args.id).signature_def
         # request.args.signature
    /\ list_programs(programs).count = 1

\* program_id was registered when dispatch began and still is.
StaysRegistered(program_id) ==
    Contains(before.programs, program_id) /\ Contains(programs, program_id)

(* C9 as stated: while an id stays registered the counter get reports for  *)
(* it never decreases, whatever the operation (create included).           *)
C9_CounterNeverDecreases ==
    Emitting =>
      \A id \in ProgramIds :
          StaysRegistered(id) =>
              ReportedCount(programs, id) >= ReportedCount(before.programs, id)

(* C9 amended: while an id stays registered the counter never decreases,   *)
(* except that a successful create of that same id replaces the record and *)
(* resets the counter to 0.                                                *)
C9_CounterDecreasesOnlyByRecreate ==
    Emitting =>
      \A id \in ProgramIds :
          StaysRegistered(id) =>
              \/ ReportedCount(programs, id)
                   >= ReportedCount(before.programs, id)
              \/ /\ HandledOk("create_program")
                 /\ request.args.id = id
                 /\ ReportedCount(programs, id) = 0

\* A create of a registered id whose counter was 1 has reset it to 0.
C9_Witness ==
    /\ HandledOk("create_program")
    /\ Contains(before.programs, request.args.id)
    /\ ReportedCount(before.programs, request.args.id) = 1
    /\ ReportedCount(programs, request.args.id) = 0

NoLmError ==
    ErrorResult(<< "Execute program failed", "Failed to recreate program",
                   "No LM is loaded." >>)

SignatureCtorError ==
    ErrorResult(<< "Execute program failed", "Failed to recreate program" >>
                \o CapabilityErrorText)

\* execute_program was called with a program_data snapshot.
Recreation ==
    /\ Handled("execute_program")
    /\ IsMapping(request.args)
    /\ "program_data" \in DOMAIN request.args

\* The snapshot is a mapping whose fields all have names.
WellFormedSnapshot(program_data) ==
    /\ IsMapping(program_data)
    /\ LET sd == Get(program_data, "signature_def", EmptyDict)
       IN NoName \notin SeqRange(Get(sd, "inputs", << >>))
                           \cup SeqRange(Get(sd, "outputs", << >>))

(* C10 as stated: with the language model unset, execute_program with a    *)
(* snapshot fails with NoLanguageModelConfigured, for every snapshot and   *)
(* every input mapping.                                                    *)
C10_NoLmForEverySnapshot ==
    (Recreation /\ before.lm.current_lm = None) =>
        response.success /\ response.result = NoLmError

(* C10 amended: with the capability linked and a non-empty program_id, a  *)
(* call with a snapshot made while the language model is unset never       *)
(* succeeds; the signature is built from the snapshot before the language  *)
(* model is checked, so the call fails with NoLanguageModelConfigured, for *)
(* every input mapping, exactly when that build succeeds, and with the     *)
(* build's own failure otherwise.  Once a language model is configured the *)
(* recreation path never fails for that reason.                            *)
C10_NoLmAfterSignatureBuild ==
    /\ (Recreation /\ before.lm.current_lm = None) =>
          /\ response.success
          /\ response.result.status = "error"
          /\ programs = before.programs
    /\ (Recreation /\ before.lm.current_lm = None /\ DSPY_AVAILABLE
          /\ request.args.program_id # "") =>
          IF WellFormedSnapshot(request.args.program_data)
          THEN response.result \in {NoLmError, SignatureCtorError}
          ELSE response.result # NoLmError
    /\ (Recreation /\ before.lm.current_lm # None) =>
          response.result # NoLmError

\* A recreation with a well-formed snapshot and inputs that are not even a
\* mapping has failed for want of a language model.
C10_Witness ==
    /\ Recreation
    /\ before.lm.current_lm = None
    /\ request.args.inputs = BadArgs
    /\ response.result = NoLmError

\* The registry differs from what it was at dispatch in the counter of one
\* record only, which is one higher.
OneCounterBumped(old, new) ==
    /\ Len(new) = Len(old)
    /\ \E i \in DOMAIN old :
          /\ new[i] = [old[i] EXCEPT
                          !.execution_count = old[i].execution_count + 1]
          /\ \A j \in DOMAIN old \ {i} : new[j] = old[j]

(* C11: the registry is changed only by create, registry-path execute (the *)
(* counter of one record, by one), delete and clear.  ping, configure_lm,  *)
(* get_program, list_programs, an unknown command and execute_program with *)
(* a snapshot leave every record as it was: a recreated record is never    *)
(* stored, even when the snapshot's program_id is registered locally.      *)
C11_RegistryFrame ==
    Emitting =>
      /\ (\/ request.command \in {"ping", "configure_lm", "get_program",
                                  "list_programs"}
          \/ request.command \notin SeqRange(SupportedCommands)
          \/ Recreation) => programs = before.programs
      /\ programs # before.programs =>
            /\ request.command \in {"create_program", "execute_program",
                                    "delete_program", "clear_session"}
            /\ response.success
            /\ response.result.status = "ok"
      /\ (Handled("execute_program") /\ programs # before.programs) =>
            OneCounterBumped(before.programs, programs)

\* A snapshot of "p1" was executed successfully while "p1" was registered
\* locally with counter 0, and the local record is as it was.
C11_Witness ==
    /\ Recreation
    /\ response.result.status = "ok"
    /\ Get(request.args.program_data, "program_id", None) = "p1"
    /\ Contains(before.programs, "p1")
    /\ ReportedCount(programs, "p1") = 0

\* Nothing a handler could have touched differs from what it was when
\* process_command was entered.
StateAsAtDispatch ==
    /\ programs = before.programs
    /\ Lm = before.lm
    /\ request_count = before.request_count

(* C12: a request whose command name is none of the eight supported ones   *)
(* (an unknown name, or no name at all) gets an error result whose         *)
(* supported_commands lists exactly ping, configure_lm, create_program,    *)
(* execute_program, get_program, list_programs, delete_program and         *)
(* clear_session, and no handler runs for it.                              *)
C12_UnknownCommandListsSupported ==
    (Emitting /\ request.command \in {"bogus", None}) =>
        /\ response.success
        /\ response.result.status = "error"
        /\ response.result.error = << "Unknown command", request.command >>
        /\ Len(response.result.supported_commands) = 8
        /\ SeqRange(response.result.supported_commands)
             = {"ping", "configure_lm", "create_program", "execute_program",
                "get_program", "list_programs", "delete_program",
                "clear_session"}
        /\ StateAsAtDispatch

\* An unknown command was answered while a program was registered and
\* pings had been counted.
C12_Witness ==
    /\ Emitting
    /\ request.command = "bogus"
    /\ "supported_commands" \in DOMAIN response.result
    /\ Len(programs) = 1
    /\ request_count = 1

\* What list_programs and clear_session report.
C13_Counts ==
    /\ Handled("list_programs") =>
          /\ response.result.status = "ok"
          /\ response.result.count = Len(response.result.programs)
          /\ response.result.count = Cardinality(Keys(programs))
          /\ {response.result.programs[i].program_id :
                 i \in DOMAIN response.result.programs} = Keys(programs)
          /\ programs = << >> =>
                response.result.programs = << >> /\ response.result.count = 0
    /\ Handled("clear_session") =>
          /\ response.result.status = "ok"
          /\ programs = << >>
          /\ before.programs = << >> => response.result.count = 0

\* Writing a response and reading the next request leave the registry alone.
RegistryKeptBetweenHandlers ==
    pc \in {"EMITTING_RESPONSE", "AWAITING_REQUEST"} => programs' = programs

(* C13: on a fresh registry list returns an empty sequence with count 0    *)
(* and clear returns count 0; after any sequence of operations list's      *)
(* count is the number of entries it returns, which is the number of       *)
(* registered ids; and a clear that directly follows a clear returns 0:    *)
(* clear leaves the registry empty, nothing between the end of one handler *)
(* and the start of the next touches the registry, and clear on an empty   *)
(* registry returns 0.                                                     *)
C13_ListAndClearCounts ==
    /\ [](C13_Counts)
    /\ [][RegistryKeptBetweenHandlers]_vars

\* The third request is a clear that finds the registry empty and
\* returns 0.
C13_Witness ==
    /\ Handled("clear_session")
    /\ Len(readLog) = 3
    /\ before.programs = << >>
    /\ response.result.count = 0

\* get and registry-path execute find no record under program_id.
GoneFrom(progs, program_id) ==
    /\ ~Contains(progs, program_id)
    /\ get_program(progs, program_id) = NotFound(program_id)
    /\ \A inputs \in InputValues, call \in CallOutcomes :
          execute_program(progs, program_id, inputs, call)
            = Outcome(NotFound(program_id), progs)

(* C14: delete of a registered id removes exactly that record and leaves   *)
(* every other record, its counter and its position unchanged; clear       *)
(* returns the number of records registered just before it and leaves the  *)
(* registry empty; after either, get and execute find no record under a    *)
(* removed id, and an id that is not registered when get or execute is     *)
(* handled is answered NotFound.                                           *)
C14_DeleteAndClearRemove ==
    /\ HandledOk("delete_program") =>
          LET id == request.args.program_id
          IN /\ Contains(before.programs, id)
             /\ Len(programs) = Len(before.programs) - 1
             /\ programs = SelectSeq(before.programs,
                                     LAMBDA r : r.program_id # id)
             /\ GoneFrom(programs, id)
    /\ (Handled("delete_program") /\ ~HandledOk("delete_program")) =>
          programs = before.programs
    /\ Handled("clear_session") =>
          /\ response.result.count = Len(before.programs)
          /\ programs = << >>
          /\ \A id \in Keys(before.programs) : GoneFrom(programs, id)
    /\ \A command \in {"get_program", "execute_program"} :
          (AskedUnregistered(command) /\ request.args.program_id # "") =>
              AnsweredNotFound

\* "p1" was deleted while "p2" was registered too: "p2" alone is left.
C14_Witness ==
    /\ HandledOk("delete_program")
    /\ request.args.program_id = "p1"
    /\ Keys(before.programs) = {"p1", "p2"}
    /\ Keys(programs) = {"p2"}

\* The three globals are as at import time.
LmUnset == current_lm = None /\ lm_type = None /\ lm_config = EmptyDict

(* C15: the process-wide configuration is unset at process start, becomes  *)
(* set only by a successful configure_lm, is replaced by the values of     *)
(* each later successful configure_lm, and no command (clear_session and   *)
(* delete_program included) returns it to unset.                           *)
C15_Configuration ==
    /\ readLog = << >> => LmUnset
    /\ current_lm = None => LmUnset
    /\ Emitting =>
          /\ Lm # before.lm => HandledOk("configure_lm")
          /\ before.lm.current_lm # None => current_lm # None
          /\ HandledOk("configure_lm") =>
                Lm = LmGlobals(request.args.model, "gemini",
                               [model |-> request.args.model,
                                api_key |-> Masked(request.args.api_key),
                                provider |-> Get(request.args, "provider",
                                                 "google")])

\* The parts that do hold: a successful configure_lm sets its own values,
\* and a configuration that is set is never unset again.
C15_ReplacedNeverUnset ==
    /\ readLog = << >> => LmUnset
    /\ Emitting =>
          /\ before.lm.current_lm # None => current_lm # None
          /\ HandledOk("configure_lm") =>
                Lm = LmGlobals(request.args.model, "gemini",
                               [model |-> request.args.model,
                                api_key |-> Masked(request.args.api_key),
                                provider |-> Get(request.args, "provider",
                                                 "google")])

CapabilityUnavailable == ErrorResult(<< "DSPy is not available" >>)

UnsupportedKind(program_type) ==
    ErrorResult(<< "Unsupported program type", program_type >>)

\* create_program was handled with both an id and a signature, so that
\* DSPyProgramManager.create_program was called.
CreateCalled ==
    /\ Handled("create_program")
    /\ IsMapping(request.args)
    /\ ~FalsyStr(Get(request.args, "id", None))
    /\ ~FalsyObj(Get(request.args, "signature", NoneObj))

\* The program kind of the request is not "predict".
OtherKind == Get(request.args, "program_type", "predict") # "predict"

\* A create that did not succeed stored nothing and left the registry
\* (the record that may already be there included) as it was.
FailedCreateStoresNothing ==
    (Handled("create_program") /\ ~HandledOk("create_program")) =>
        programs = before.programs

(* C16 as stated: create fails with CapabilityUnavailable when the         *)
(* capability is not linked and with UnsupportedKind whenever the kind is  *)
(* not "predict"; then, and when id or signature is missing, nothing is    *)
(* stored and a registered record under the id is unchanged.               *)
C16_UnsupportedKindAlways ==
    /\ (CreateCalled /\ ~DSPY_AVAILABLE) =>
          response.result = CapabilityUnavailable
    /\ (CreateCalled /\ DSPY_AVAILABLE /\ OtherKind) =>
          response.result = UnsupportedKind(request.args.program_type)
    /\ FailedCreateStoresNothing

(* C16 amended: create fails with CapabilityUnavailable when the           *)
(* capability is not linked; with the capability linked and a kind other   *)
(* than "predict" it fails with UnsupportedKind provided the signature can *)
(* be built from the field specification, and with that build's failure    *)
(* otherwise (the signature is built before the kind is looked at); a      *)
(* missing id or signature is rejected by the handler.  In every one of    *)
(* these cases nothing is stored and a registered record under the id is   *)
(* unchanged.                                                              *)
C16_UnsupportedKindAfterBuild ==
    /\ (CreateCalled /\ ~DSPY_AVAILABLE) =>
          response.result = CapabilityUnavailable
    /\ (CreateCalled /\ DSPY_AVAILABLE /\ OtherKind) =>
          IF NoName \in SeqRange(Get(request.args.signature, "inputs", << >>))
                      \cup SeqRange(Get(request.args.signature, "outputs",
                                        << >>))
          THEN response.result
                 = ErrorResult(<< "Failed to create program" >>
                               \o KeyErrorNameText)
          ELSE response.result
                 \in {UnsupportedKind(request.args.program_type),
                      ErrorResult(<< "Failed to create program" >>
                                  \o CapabilityErrorText)}
    /\ (Handled("create_program") /\ IsMapping(request.args)
          /\ FalsyStr(Get(request.args, "id", None))) =>
          response.result = ErrorResult(<< "Program ID is required" >>)
    /\ (Handled("create_program") /\ IsMapping(request.args)
          /\ ~FalsyStr(Get(request.args, "id", None))
          /\ FalsyObj(Get(request.args, "signature", NoneObj))) =>
          response.result = ErrorResult(<< "Signature is required" >>)
    /\ FailedCreateStoresNothing

\* A create of the registered "p1" with another kind failed with
\* UnsupportedKind and the record of "p1" is as it was.
C16_Witness ==
    /\ CreateCalled
    /\ request.args.id = "p1"
    /\ response.result = UnsupportedKind("chain_of_thought")
    /\ Contains(before.programs, "p1")
    /\ programs = before.programs

\* What the recreation path returns for the request at hand when the
\* capability behaves as cap.
RecreationResult(cap) ==
    LET info == _recreate_program_from_data(
                    request.args.program_data, before.lm, DSPY_AVAILABLE,
                    cap.sig_raises, cap.predict_raises)
    IN IF info.raised
       THEN ErrorResult(<< "Execute program failed" >> \o info.exc)
       ELSE _execute_with_program_info(
                info.value, Get(request.args, "inputs", EmptyDict), cap.call)

\* What the registry path returns, and the registry it leaves.
RegistryOutcome(cap) ==
    execute_program(before.programs, request.args.program_id,
                    Get(request.args, "inputs", EmptyDict), cap.call)

(* C17: execute_program takes the recreation path exactly when a snapshot  *)
(* is supplied, whether or not program_id is registered locally, and the   *)
(* registry path otherwise; a missing or empty program_id is rejected      *)
(* before either path is taken.                                            *)
C17_PathSelection ==
    (Handled("execute_program") /\ IsMapping(request.args)) =>
        IF FalsyStr(Get(request.args, "program_id", None))
        THEN /\ response.result = ErrorResult(<< "Program ID is required" >>)
             /\ programs = before.programs
        ELSE IF "program_data" \in DOMAIN request.args
        THEN /\ \E cap \in CapabilityRuns :
                   response.result = RecreationResult(cap)
             /\ programs = before.programs
             /\ response.result # NotFound(request.args.program_id)
             /\ "execution_count" \notin DOMAIN response.result
        ELSE /\ \E cap \in CapabilityRuns :
                   Outcome(response.result, programs) = RegistryOutcome(cap)
             /\ "execution_time" \notin DOMAIN response.result
             /\ ~Contains(before.programs, request.args.program_id) =>
                   response.result = NotFound(request.args.program_id)

\* A snapshot was supplied for a program_id that is registered locally and
\* the result is that of the recreation path.
C17_Witness ==
    /\ Recreation
    /\ Contains(before.programs, request.args.program_id)
    /\ response.result.status = "ok"
    /\ "execution_time" \in DOMAIN response.result
    /\ "execution_count" \notin DOMAIN response.result

\* program(**inputs) was reached in this request and returned a result.
InvocationReturned == invoked # Unbound /\ ~invoked.raised

\* The output fields the snapshot of the request declares.
DeclaredOutputs ==
    Get(Get(request.args.program_data, "signature_def", EmptyDict),
        "outputs", << >>)

\* A recreated program was invoked, the invocation returned, and the result
\* object has none of the declared output fields (of which there is one at
\* least) as an attribute.
AllDeclaredMissing ==
    /\ Recreation
    /\ InvocationReturned
    /\ DeclaredOutputs # << >>
    /\ \A n \in SeqRange(DeclaredOutputs) : ~HasAttr(invoked.value, n)

(* C18: in the recreation path the extraction strategies are attempted in  *)
(* order until one yields a non-empty, non-placeholder result: when every  *)
(* declared output field is missing on the result object, the internal     *)
(* store and the completions are still consulted, and what is returned is  *)
(* not the mapping of "field not found" placeholders.                      *)
C18_LaterStrategiesAttempted ==
    AllDeclaredMissing =>
        LET outputs == response.result.outputs
            result == invoked.value
        IN /\ response.result.status = "ok"
           /\ \A n \in SeqRange(DeclaredOutputs) \cap DOMAIN result.store :
                 outputs[n] # FieldNotFound(n)
           /\ result.completions.state = "first" =>
                 outputs[DeclaredOutputs[1]] # FieldNotFound(DeclaredOutputs[1])
           /\ \E n \in SeqRange(DeclaredOutputs) :
                 outputs[n] # FieldNotFound(n)

\* No strategy can yield anything from the result object: it has none of
\* the declared fields as attribute or in its store, no usable completions
\* and no public entry in its __dict__.
NothingToExtract ==
    /\ Recreation
    /\ InvocationReturned
    /\ \A n \in SeqRange(DeclaredOutputs) :
          ~HasAttr(invoked.value, n) /\ n \notin DOMAIN invoked.value.store
    /\ invoked.value.completions.state # "first"
    /\ \A k \in DOMAIN invoked.value.dict : IsPrivate(k) \/ k = "completions"

\* A returned invocation is reported ok, and an error of the recreation path
\* comes from a raised failure only.
C19_OkUnlessRaised ==
    /\ (Recreation /\ InvocationReturned) => response.result.status = "ok"
    /\ (Recreation /\ response.result.status = "error") =>
          ~InvocationReturned

(* C19: when the invocation in the recreation path returns without         *)
(* raising, the call is reported with status ok even when every extraction *)
(* strategy fails, and then each expected output field carries the         *)
(* diagnostic placeholder; an error status of the recreation path arises   *)
(* only from a raised failure during recreation or invocation.             *)
C19_OkWithDiagnostics ==
    /\ C19_OkUnlessRaised
    /\ NothingToExtract =>
          \A n \in SeqRange(DeclaredOutputs) :
              response.result.outputs[n] = Diagnostic

\* The frames of the documents docs, one after the other.
RECURSIVE FramesOf(_)
FramesOf(docs) ==
    IF docs = << >> THEN << >>
    ELSE write_message_bytes(Head(docs)) \o FramesOf(Tail(docs))

\* The frame of one document: a 4-byte big-endian count of the payload
\* bytes, then exactly those bytes; read back, it gives the document and
\* leaves nothing.
FrameRoundTrips(message) ==
    LET frame == write_message_bytes(message)
        payload == dumps(message)
    IN /\ Len(frame) = HeaderSize + Len(payload)
       /\ \A i \in 1..HeaderSize : frame[i] \in 0..255
       /\ ((frame[1] * 256 + frame[2]) * 256 + frame[3]) * 256 + frame[4]
            = Len(payload)
       /\ SubSeq(frame, HeaderSize + 1, Len(frame)) = payload
       /\ read_message_bytes(frame) = [message |-> message, rest |-> << >>]

(* C20: framing round-trips.  For every document the frame written is a    *)
(* 4-byte big-endian length equal to the payload's byte count followed by  *)
(* exactly that many bytes; reading returns the document and consumes      *)
(* exactly its frame, so that the documents read are, in order, the        *)
(* documents written, and what is left on the stream is the frames of the  *)
(* documents not yet read.                                                 *)
C20_FramingRoundTrips ==
    /\ \A k \in 1..Len(sent) : FrameRoundTrips(sent[k])
    /\ Len(received) <= Len(sent)
    /\ received = SubSeq(sent, 1, Len(received))
    /\ wire = FramesOf(SubSeq(sent, Len(received) + 1, Len(sent)))
    /\ wire = << >> => received = sent

\* Three frames were written and read back: the long string (a payload of
\* more than 255 bytes), the empty string (no bytes of content) and a
\* nested mapping.
C20_Witness ==
    /\ wire = << >>
    /\ Len(received) = MaxFrames
    /\ received[1] = JStr(LongString)
    /\ received[2] = JStr(<< >>)
    /\ received[3].kind = "dict" /\ Len(received[3].keys) = 2
    /\ Len(dumps(received[1])) > 255

\* The stream ended inside a frame (or before one): after fewer than 4
\* header bytes, or after fewer payload bytes than the header declares.
StreamCutShort == loopExit \in {"end_of_stream", "truncated_frame"}

\* Byte by byte: read_message returns None for every proper prefix of the
\* frame of every document, and leaves nothing to read.
TruncatedFrameReadsAsNone ==
    \A message \in Documents :
        LET frame == write_message_bytes(message)
        IN \A n \in 0..(Len(frame) - 1) :
              read_message_bytes(SubSeq(frame, 1, n))
                  = [message |-> NullDocument, rest |-> << >>]

(* C21: a stream that ends after fewer than 4 header bytes, or after fewer *)
(* payload bytes than the header declares, is read as end of stream: the   *)
(* read returns None, nothing is dispatched and nothing is written for the *)
(* truncated frame (every request read before it has its response, and    *)
(* there is no other response), run() leaves its loop by the break, not by *)
(* an exception, and takes no further step.                                *)
C21_TruncatedFrameClosesLoop ==
    /\ [](/\ TruncatedFrameReadsAsNone
          /\ StreamCutShort =>
                /\ pc = "CLOSED"
                /\ request = NullDocument
                /\ response = Unbound
                /\ Len(outLog) = Len(readLog))
    /\ [][~StreamCutShort]_vars

\* One request was answered, then the stream ended inside the payload of
\* the next frame.
C21_Witness ==
    /\ loopExit = "truncated_frame"
    /\ pc = "CLOSED"
    /\ Len(readLog) = 1
    /\ Len(outLog) = 1


\* program(**inputs) of a registered program was reached in this request
\* and raised.
RegistryInvocationRaised ==
    /\ Handled("execute_program")
    /\ invoked # Unbound
    /\ invoked.raised
    /\ Get(request.args, "program_data", NoneObj) = NoneObj

\* The same execute, repeated on the state the failed one left, with an
\* invocation that returns result.
ExecutedAgain(result) ==
    handle_execute_program(request.args, programs, request_count, Lm,
                           DSPY_AVAILABLE, FALSE, FALSE, Returned(result))

(* C22: a registry-path execute whose invocation of the program raises     *)
(* returns the error "Program execution failed: <message>" with the        *)
(* message of the exception, and leaves the whole registry, the record's   *)
(* execution counter included, as it was; a successful execute of the same *)
(* id on that state reports, and stores, a counter exactly 1 higher than   *)
(* the one before the failed call.                                         *)
C22_FailedExecuteLeavesCounter ==
    RegistryInvocationRaised =>
        LET program_id == request.args.program_id
            counter == ReportedCount(before.programs, program_id)
        IN /\ response.success
           /\ response.result
                = ErrorResult(<< "Program execution failed" >>
                              \o invoked.exc)
           /\ programs = before.programs
           /\ ReportedCount(programs, program_id) = counter
           /\ \A result \in ResultObjects :
                 /\ ExecutedAgain(result).result.status = "ok"
                 /\ ExecutedAgain(result).result.execution_count
                      = counter + 1
                 /\ ReportedCount(ExecutedAgain(result).programs, program_id)
                      = counter + 1

\* The invocation of "p1" raised after "p1" had been executed once.
C22_Witness ==
    /\ RegistryInvocationRaised
    /\ request.args.program_id = "p1"
    /\ ReportedCount(before.programs, "p1") = 1
    /\ invoked = Raised(CapabilityErrorText)


\* A recreated program was invoked, the invocation returned, and the result
\* object carries every declared output field as an attribute.
AllDeclaredPresent ==
    /\ Recreation
    /\ InvocationReturned
    /\ \A n \in SeqRange(DeclaredOutputs) : HasAttr(invoked.value, n)

\* The output mapping holds str() of the attribute for each declared field.
AttributesReturned ==
    /\ response.result.status = "ok"
    /\ \A n \in SeqRange(DeclaredOutputs) :
          /\ n \in DOMAIN response.result.outputs
          /\ response.result.outputs[n] = Str(GetAttr(invoked.value, n))

\* The same, for attribute values whose text does not hold both brackets.
C23_UnbracketedAttributesReturned ==
    (/\ AllDeclaredPresent
     /\ \E n \in SeqRange(DeclaredOutputs) :
           ~LooksLikePlaceholder(Str(GetAttr(invoked.value, n))))
        => AttributesReturned

(* C23: in the recreation path, when the result object carries every       *)
(* declared output field as an attribute, the output mapping holds for     *)
(* each declared output field the stringified value of that attribute,     *)
(* whatever the value, a value whose text contains both "[" and "]"        *)
(* included.                                                               *)
C23_AttributesReturnedForEveryValue ==
    AllDeclaredPresent => AttributesReturned


\* The program info that the snapshot of the request was recreated into.
RecreatedInfo ==
    _recreate_program_from_data(request.args.program_data, before.lm,
                                DSPY_AVAILABLE, FALSE, FALSE).value

\* The first strategy left the output mapping empty, so that the second,
\* by the declared names themselves, is entered.
DirectNamesReached ==
    DOMAIN ByFieldMapping(RecreatedInfo, invoked.value) = {}

(* C24: every recreation-path execute that returns status ok returns an    *)
(* output mapping with a key for every output field the snapshot declares, *)
(* whatever the result object looks like; the second strategy (the         *)
(* declared names read directly) is entered only when the snapshot         *)
(* declares no output field.                                               *)
C24_EveryDeclaredFieldHasKey ==
    (Recreation /\ response.result.status = "ok") =>
        /\ InvocationReturned
        /\ SeqRange(DeclaredOutputs) \subseteq DOMAIN response.result.outputs
        /\ DirectNamesReached => DeclaredOutputs = << >>

\* A snapshot that declares "answer" was executed, the result object has
\* neither the attribute nor anything else to extract, and the output
\* mapping has the key all the same.
C24_Witness ==
    /\ Recreation
    /\ response.result.status = "ok"
    /\ DeclaredOutputs = << "answer" >>
    /\ invoked.value = ResultObject(NoAttrs, EmptyDict, NoCompletions,
                                    EmptyDict)
    /\ DOMAIN response.result.outputs = {"answer"}


\* The command of the request in hand fails inside its handler: an unknown
\* command, arguments that are not a mapping, an id that is not registered,
\* a missing argument, an unsupported kind or a capability that is not
\* linked, a configuration that is not supported, a snapshot without a
\* configured language model, an invocation that raises.
FailsInHandler ==
    /\ Emitting
    /\ request.command # Unhashable
    /\ \/ request.command \notin SeqRange(SupportedCommands)
       \/ /\ request.command \in SeqRange(SupportedCommands)
                                    \ {"list_programs", "clear_session"}
          /\ ~IsMapping(request.args)
       \/ \E c \in {"get_program", "delete_program", "execute_program"} :
             AskedUnregistered(c)
       \/ /\ Handled("execute_program")
          /\ IsMapping(request.args)
          /\ FalsyStr(Get(request.args, "program_id", None))
       \/ /\ Handled("create_program")
          /\ IsMapping(request.args)
          /\ ~CreateCalled
       \/ CreateCalled /\ (OtherKind \/ ~DSPY_AVAILABLE)
       \/ /\ Handled("configure_lm")
          /\ IsMapping(request.args)
          /\ \/ FalsyStr(Get(request.args, "model", None))
             \/ FalsyStr(Get(request.args, "api_key", None))
             \/ Get(request.args, "provider", "google") # "google"
             \/ ~StartsWithGemini(Get(request.args, "model", None))
       \/ Recreation /\ before.lm.current_lm = None
       \/ /\ Handled("execute_program")
          /\ invoked # Unbound
          /\ invoked.raised

(* C25: a command that fails inside its handler is answered with an        *)
(* envelope whose success flag is true and whose result carries status     *)
(* error and an error text; the success flag is false only when the        *)
(* dispatch itself raises outside the handler's failure boundary (the      *)
(* lookup of the command in the handler table), and then the envelope has  *)
(* an error text and no result.                                            *)
C25_HandlerFailuresAreResults ==
    Emitting =>
        /\ response.success = (request.command # Unhashable)
        /\ response.success =>
              /\ response.result.status \in {"ok", "error"}
              /\ response.result.status = "error" =>
                    "error" \in DOMAIN response.result
        /\ FailsInHandler =>
              /\ response.success
              /\ response.result.status = "error"
        /\ ~response.success =>
              /\ "result" \notin DOMAIN response
              /\ "error" \in DOMAIN response
              /\ StateAsAtDispatch

\* A dispatch that raised was answered with a failure envelope; later the
\* invocation of a registered program raised, and that is answered with a
\* success envelope that carries the error.
C25_Witness ==
    /\ Len(outLog) >= 1
    /\ ~outLog[1].success
    /\ FailsInHandler
    /\ Handled("execute_program")
    /\ invoked = Raised(CapabilityErrorText)
    /\ response.success
    /\ response.result.status = "error"


\* configure_lm was handled and returned an error.
ConfigureFailed ==
    /\ Handled("configure_lm")
    /\ response.success
    /\ response.result.status = "error"

\* ... for one of these reasons: model or api_key missing, a provider other
\* than "google", a model name not prefixed "gemini", or the construction
\* or the test call of the language model raising.
ConfigureFailedAsListed ==
    /\ ConfigureFailed
    /\ IsMapping(request.args)
    /\ \/ FalsyStr(Get(request.args, "model", None))
       \/ FalsyStr(Get(request.args, "api_key", None))
       \/ Get(request.args, "provider", "google") # "google"
       \/ ~StartsWithGemini(Get(request.args, "model", None))
       \/ response.result = ErrorResult(<< "LM configuration failed" >>
                                        \o CapabilityErrorText)

\* The failures of that list leave the configuration as it was.
C26_ListedFailuresLeaveConfiguration ==
    ConfigureFailedAsListed => Lm = before.lm

(* C26: a configure_lm that fails returns an error and leaves the          *)
(* process-wide configuration exactly as it was: still unset if it was     *)
(* unset, still the previous model if one was configured.                  *)
C26_FailedConfigureLeavesConfiguration ==
    ConfigureFailed =>
        /\ Lm = before.lm
        /\ before.lm.current_lm = None => LmUnset

====
